---- MODULE Spec2Model ----
(***************************************************************************)
(* rqt_lifecycle_manager: the LifecycleManager plugin                      *)
(* (src/rqt_lifecycle_manager/lifecycle_manager.py) as a state machine.    *)
(*                                                                         *)
(* The plugin lives in the single GUI thread.  Two QTimers call            *)
(* _update_node_list and _update_nodes_state; a right click on the table   *)
(* calls _on_lc_node_menu.  Every call to ros2lifecycle (get_node_names,   *)
(* call_get_states, call_change_states) is synchronous: the GUI thread     *)
(* does not process Qt events while it waits, so a timer callback is one   *)
(* atomic step.  _on_lc_node_menu has one point where Qt events are        *)
(* processed, menu.exec_() (a nested event loop: the timers keep firing    *)
(* while the menu is open), and one remote call per transition step, which *)
(* is split here into its request and its response.                        *)
(***************************************************************************)
EXTENDS Naturals, Sequences, FiniteSets

\* ------------------------------------------------------------------ bounds

\* number of lifecycle nodes that exist in the ROS graph.  Two nodes give
\* every case of the properties below (a node added, removed, reordered, one
\* failing beside one answering).
NumNodes == 2

NodeNames == <<"a", "b", "c", "d">>

Nodes == {NodeNames[i] : i \in 1..NumNodes}

\* ------------------------------------------------- external services' values

\* State.label of lifecycle_msgs: the four primary states, and one of the
\* transition states a node reports while a callback of it is running.
PrimaryLabels == {"unconfigured", "inactive", "active", "finalized"}

Labels == PrimaryLabels \cup {"activating"}

\* what call_get_states holds for one node: a State (its label) or an Exception
QueryOutcomes == Labels \cup {"Exception"}

\* what call_change_states holds for one node: True, False or an Exception
ChangeOutcomes == {"success", "failure", "Exception"}

\* all lists without repetition over a set of names
RECURSIVE ListsOver(_)
ListsOver(S) ==
    {<<>>} \cup UNION {{<<n>> \o l : l \in ListsOver(S \ {n})} : n \in S}

\* what get_node_names can return: the lifecycle nodes currently in the graph,
\* in any order
DirectoryLists == ListsOver(Nodes)

DirOk(l) == [kind |-> "ok", names |-> l]

DirRuntimeError == [kind |-> "RuntimeError", names |-> <<>>]

\* outcome of get_node_names: a list, or a RuntimeError
DirectoryOutcomes ==
    {[kind |-> "ok", names |-> l] : l \in DirectoryLists}
        \cup {[kind |-> "RuntimeError", names |-> <<>>]}

\* -------------------------------------------------------------------- state

VARIABLES
    lc_node_names,   \* self._lc_node_names: the list the directory returned last
    lc_nodes,        \* self._lc_nodes: list of NodeState(name, state)
    table_model,     \* self._table_model: <<>> for None, else <<its _data>>
    states,          \* the answers of call_get_states in the last state refresh
    timers_active,   \* both QTimers running (started in __init__)
    pc,              \* position of _on_lc_node_menu: idle, menu, call, wait
    row,             \* its local row: the row of the view under the cursor
    lc_node,         \* its local lc_node: the row read when the menu was opened
    menu,            \* its local menu: the entries added to the QMenu
    action,          \* its local action: the entry menu.exec_ returned
    todo,            \* transition labels its chosen branch has still to call
    calls,           \* calls of call_change_states made by the last invocation
    escaped,         \* the exception that left a callback unhandled, or "None"
    graph            \* the ROS graph, once it has come to rest (see Stabilize)

vars == <<lc_node_names, lc_nodes, table_model, states, timers_active,
          pc, row, lc_node, menu, action, todo, calls, escaped, graph>>

NodeState(n, s) == [name |-> n, state |-> s]

NoNode == NodeState("", "")

NameSet(l) == {l[i] : i \in 1..Len(l)}

\* the graph while nodes come and go and change state
FreeGraph == [stable |-> FALSE, nodes |-> {}, state |-> <<>>]

\* a graph at rest: the nodes that exist, each in a state it keeps
StableGraphs ==
    UNION {{[stable |-> TRUE, nodes |-> D, state |-> f] : f \in [D -> Labels]} :
              D \in SUBSET Nodes}

\* what get_node_names can end with: anything while the graph changes, the
\* nodes of the graph in some order once it is at rest
Listings ==
    IF graph.stable
    THEN {DirOk(l) : l \in {x \in DirectoryLists : NameSet(x) = graph.nodes}}
    ELSE DirectoryOutcomes

\* what the state queries for `names` can hold: anything while the graph
\* changes; once it is at rest the state of each node that exists, and an
\* Exception (no such service) for a name that does not
Answers(names) ==
    IF graph.stable
    THEN {[n \in NameSet(names) |->
              IF n \in graph.nodes THEN graph.state[n] ELSE "Exception"]}
    ELSE [NameSet(names) -> QueryOutcomes]

Init ==
    /\ lc_node_names = <<>>
    /\ lc_nodes = <<>>
    /\ table_model = <<>>
    /\ states = <<>>
    /\ timers_active = TRUE
    /\ pc = "idle"
    /\ row = 0
    /\ lc_node = NoNode
    /\ menu = {}
    /\ action = "None"
    /\ todo = <<>>
    /\ calls = <<>>
    /\ escaped = "None"
    /\ graph = FreeGraph

\* ---------------------------------------------------------- state refresh

\* call_get_states(node_names=[n]): a dict with the one key n
CallGetStates(n, res) == [k \in {n} |-> res[k]]

\* lines 128-135: entries that are Exceptions are printed and deleted
DropExceptions(d) ==
    [k \in {x \in DOMAIN d : d[x] # "Exception"} |-> d[k]]

\* lines 138-140: one NodeState per remaining key (the dict has at most one)
RowsOf(d) ==
    IF DOMAIN d = {} THEN <<>>
    ELSE LET k == CHOOSE x \in DOMAIN d : TRUE IN <<NodeState(k, d[k])>>

\* faulty variant of QueryAll:
\* the first Exception ends the loop
RECURSIVE QueryAllAbortOnError(_, _)
QueryAllAbortOnError(names, res) ==
    IF names = <<>> THEN <<>>
    ELSE IF res[Head(names)] = "Exception" THEN <<>>
    ELSE RowsOf(DropExceptions(CallGetStates(Head(names), res)))
            \o QueryAllAbortOnError(Tail(names), res)

\* lines 124-140: the loop over self._lc_node_names, starting from []
RECURSIVE QueryAll(_, _)
QueryAll(names, res) ==
    IF names = <<>> THEN <<>>
    ELSE RowsOf(DropExceptions(CallGetStates(Head(names), res)))
            \o QueryAll(Tail(names), res)

\* _show_lc_nodes: a new table model over the list self._lc_nodes
ShowLcNodes(rows) == <<rows>>

\* the rows of the old snapshot for the names whose query held an Exception,
\* the new row for the others
RECURSIVE KeepOnError(_, _, _)
KeepOnError(names, res, old) ==
    IF names = <<>> THEN <<>>
    ELSE (IF res[Head(names)] = "Exception"
          THEN SelectSeq(old, LAMBDA r : r.name = Head(names))
          ELSE <<NodeState(Head(names), res[Head(names)])>>)
            \o KeepOnError(Tail(names), res, old)

\* faulty variant of UpdateNodesState:
\* the row of a node whose query failed is patched in from the old snapshot
UpdateNodesStatePatching(names, res) ==
    /\ lc_nodes' = KeepOnError(names, res, lc_nodes)
    /\ table_model' = ShowLcNodes(KeepOnError(names, res, lc_nodes))
    /\ states' = res

\* _update_nodes_state with the known list `names` and the services' answers res
UpdateNodesState(names, res) ==
    /\ lc_nodes' = QueryAll(names, res)
    /\ table_model' = ShowLcNodes(QueryAll(names, res))
    /\ states' = res

\* the callbacks of the timers run in the GUI event loop: not while a remote
\* transition call blocks the thread
EventLoopRuns == pc \in {"idle", "menu"}

\* faulty variant of UpdateNodesStateTimer:
\* the timer is not stopped by shutdown_plugin
UpdateNodesStateTimerNotStopped ==
    /\ EventLoopRuns
    /\ \E res \in Answers(lc_node_names) :
          UpdateNodesState(lc_node_names, res)
    /\ UNCHANGED <<lc_node_names, timers_active, pc, row, lc_node, menu, action, todo, calls>>
    /\ UNCHANGED <<escaped, graph>>

\* faulty variant of UpdateNodesStateTimer:
\* the timeout of the state timer is connected to nothing
UpdateNodesStateTimerIdle ==
    /\ timers_active
    /\ EventLoopRuns
    /\ UNCHANGED vars

\* timeout of _update_nodes_state_timer
UpdateNodesStateTimer ==
    /\ timers_active
    /\ EventLoopRuns
    /\ \E res \in Answers(lc_node_names) :
          UpdateNodesState(lc_node_names, res)
    /\ UNCHANGED <<lc_node_names, timers_active, pc, row, lc_node, menu, action, todo, calls>>
    /\ UNCHANGED <<escaped, graph>>

\* ---------------------------------------------------------- directory poll

\* _list_lc_nodes: the list, or [] when get_node_names raises RuntimeError
ListLcNodes(out) == IF out.kind = "ok" THEN out.names ELSE <<>>

\* faulty variant of UpdateNodeListOn:
\* the new list is stored, the snapshot is left to the state timer
UpdateNodeListOnNoRefresh(out) ==
    /\ timers_active
    /\ EventLoopRuns
    /\ lc_node_names' = ListLcNodes(out)
    /\ UNCHANGED <<lc_nodes, table_model, states>>
    /\ UNCHANGED <<timers_active, pc, row, lc_node, menu, action, todo, calls>>
    /\ UNCHANGED <<escaped, graph>>

\* faulty variant of UpdateNodeListOn:
\* the states are refreshed on every tick, whether the list changed or not
UpdateNodeListOnAlwaysRefresh(out) ==
    /\ timers_active
    /\ EventLoopRuns
    /\ lc_node_names' = ListLcNodes(out)
    /\ \E res \in Answers(ListLcNodes(out)) :
          UpdateNodesState(ListLcNodes(out), res)
    /\ UNCHANGED <<timers_active, pc, row, lc_node, menu, action, todo, calls>>
    /\ UNCHANGED <<escaped, graph>>

\* _update_node_list when get_node_names ends with `out`
UpdateNodeListOn(out) ==
    /\ timers_active
    /\ EventLoopRuns
    /\ LET node_names == ListLcNodes(out) IN
       IF lc_node_names # node_names
       THEN /\ lc_node_names' = node_names
            /\ \E res \in Answers(node_names) :
                  UpdateNodesState(node_names, res)
       ELSE UNCHANGED <<lc_node_names, lc_nodes, table_model, states>>
    /\ UNCHANGED <<timers_active, pc, row, lc_node, menu, action, todo, calls>>
    /\ UNCHANGED <<escaped, graph>>

\* timeout of _update_node_list_timer
UpdateNodeList == \E out \in Listings : UpdateNodeListOn(out)

\* shutdown_plugin: both timers are stopped
ShutdownPlugin ==
    /\ timers_active
    /\ EventLoopRuns
    /\ timers_active' = FALSE
    /\ UNCHANGED <<lc_node_names, lc_nodes, table_model, states,
                   pc, row, lc_node, menu, action, todo, calls>>
    /\ UNCHANGED <<escaped, graph>>

\* ------------------------------------------------------------ context menu

\* faulty variant of MenuEntries:
\* the inactive branch adds the entries of the active one
MenuEntriesWrongBranch(state) ==
    CASE state = "active" -> {"Deactivate", "Deactivate and cleanup", "Shutdown"}
      [] state = "inactive" -> {"Deactivate", "Deactivate and cleanup", "Shutdown"}
      [] state = "unconfigured" -> {"Configure", "Configure and Activate", "Shutdown"}
      [] OTHER -> {}

\* lines 172-185: the entries added to the QMenu for the row's state
MenuEntries(state) ==
    CASE state = "active" -> {"Deactivate", "Deactivate and cleanup", "Shutdown"}
      [] state = "inactive" -> {"Activate", "Cleanup", "Shutdown"}
      [] state = "unconfigured" -> {"Configure", "Configure and Activate", "Shutdown"}
      [] OTHER -> {}

\* faulty variant of Evaluate:
\* the two calls of each combined entry are swapped
EvaluateSwapped(state, a) ==
    CASE state = "active" ->
            (CASE a = "Deactivate" -> <<"deactivate">>
               [] a = "Shutdown" -> <<"shutdown">>
               [] a = "Deactivate and cleanup" -> <<"cleanup", "deactivate">>
               [] OTHER -> <<>>)
      [] state = "inactive" ->
            (CASE a = "Activate" -> <<"activate">>
               [] a = "Cleanup" -> <<"cleanup">>
               [] a = "Shutdown" -> <<"shutdown">>
               [] OTHER -> <<>>)
      [] state = "unconfigured" ->
            (CASE a = "Configure" -> <<"configure">>
               [] a = "Shutdown" -> <<"shutdown">>
               [] a = "Configure and Activate" -> <<"activate", "configure">>
               [] OTHER -> <<>>)
      [] OTHER -> <<>>

\* faulty variant of Evaluate:
\* the last test of each branch is an else, so that a dismissed menu runs the
\* combined entry (the Shutdown entry of an inactive row)
EvaluateLastIsElse(state, a) ==
    CASE state = "active" ->
            (CASE a = "Deactivate" -> <<"deactivate">>
               [] a = "Shutdown" -> <<"shutdown">>
               [] OTHER -> <<"deactivate", "cleanup">>)
      [] state = "inactive" ->
            (CASE a = "Activate" -> <<"activate">>
               [] a = "Cleanup" -> <<"cleanup">>
               [] OTHER -> <<"shutdown">>)
      [] state = "unconfigured" ->
            (CASE a = "Configure" -> <<"configure">>
               [] a = "Shutdown" -> <<"shutdown">>
               [] OTHER -> <<"configure", "activate">>)
      [] OTHER -> <<>>

\* lines 190-214: the transition labels called for the chosen entry, in order
Evaluate(state, a) ==
    CASE state = "active" ->
            (CASE a = "Deactivate" -> <<"deactivate">>
               [] a = "Shutdown" -> <<"shutdown">>
               [] a = "Deactivate and cleanup" -> <<"deactivate", "cleanup">>
               [] OTHER -> <<>>)
      [] state = "inactive" ->
            (CASE a = "Activate" -> <<"activate">>
               [] a = "Cleanup" -> <<"cleanup">>
               [] a = "Shutdown" -> <<"shutdown">>
               [] OTHER -> <<>>)
      [] state = "unconfigured" ->
            (CASE a = "Configure" -> <<"configure">>
               [] a = "Shutdown" -> <<"shutdown">>
               [] a = "Configure and Activate" -> <<"configure", "activate">>
               [] OTHER -> <<>>)
      [] OTHER -> <<>>

\* table_view.rowAt(pos.y()): a row of the view's model, or -1 (here 0)
RowsAt == IF table_model = <<>> THEN {} ELSE 1..Len(table_model[1])

\* lines 164-166: no row under the cursor, the callback returns
OnLcNodeMenuNoRow ==
    /\ pc = "idle"
    /\ UNCHANGED vars

\* lines 164-185: the row is read and the menu is built and shown
OnLcNodeMenu ==
    /\ pc = "idle"
    /\ \E r \in RowsAt :
          /\ row' = r
          /\ lc_node' = lc_nodes[r]
          /\ menu' = MenuEntries(lc_nodes[r].state)
    /\ pc' = "menu"
    /\ action' = "None"
    /\ todo' = <<>>
    /\ calls' = <<>>
    /\ UNCHANGED <<lc_node_names, lc_nodes, table_model, states, timers_active>>
    /\ UNCHANGED <<escaped, graph>>

\* what follows a statement of the callback: the next transition call, or its end
AfterStep(rest) == IF rest = <<>> THEN "idle" ELSE "call"

\* line 187: menu.exec_ returns the entry chosen, or None when it is dismissed;
\* lines 190-214 then select the calls to make
MenuExec ==
    /\ pc = "menu"
    /\ \E a \in menu \cup {"None"} :
          /\ action' = a
          /\ todo' = Evaluate(lc_node.state, a)
          /\ pc' = AfterStep(Evaluate(lc_node.state, a))
    /\ UNCHANGED <<lc_node_names, lc_nodes, table_model, states, timers_active,
                   row, lc_node, menu, calls>>
    /\ UNCHANGED <<escaped, graph>>

\* faulty variant of CallTransition:
\* the request is sent and the callback goes on
\* without waiting for the response
CallTransitionNoWait ==
    /\ pc = "call"
    /\ calls' = Append(calls, [node |-> lc_node.name, label |-> Head(todo),
                               result |-> "pending"])
    /\ todo' = Tail(todo)
    /\ pc' = AfterStep(Tail(todo))
    /\ UNCHANGED <<lc_node_names, lc_nodes, table_model, states, timers_active,
                   row, lc_node, menu, action>>
    /\ UNCHANGED <<escaped, graph>>

\* faulty variant of CallTransition:
\* the node is read again from the snapshot, at the clicked row, when the
\* request is sent
CallTransitionRereadsRow ==
    /\ pc = "call"
    /\ calls' = Append(calls,
                       [node |-> IF row \in 1..Len(lc_nodes)
                                 THEN lc_nodes[row].name ELSE lc_node.name,
                        label |-> Head(todo), result |-> "pending"])
    /\ pc' = "wait"
    /\ UNCHANGED <<lc_node_names, lc_nodes, table_model, states, timers_active,
                   row, lc_node, menu, action, todo>>
    /\ UNCHANGED <<escaped, graph>>

\* lines 218-220: _call_transition sends the request for the next label and waits
CallTransition ==
    /\ pc = "call"
    /\ calls' = Append(calls, [node |-> lc_node.name, label |-> Head(todo),
                               result |-> "pending"])
    /\ pc' = "wait"
    /\ UNCHANGED <<lc_node_names, lc_nodes, table_model, states, timers_active,
                   row, lc_node, menu, action, todo>>
    /\ UNCHANGED <<escaped, graph>>

\* the statement after a returned _call_transition: whatever the result, the
\* next statement of the branch
Continue(result, rest) == AfterStep(rest)

\* the snapshot with the rows of node n set to state st
WithState(rows, n, st) ==
    [i \in 1..Len(rows) |->
        IF rows[i].name = n THEN NodeState(n, st) ELSE rows[i]]

\* the primary state a successful transition ends in
Goal(label) ==
    CASE label = "configure" -> "inactive"
      [] label = "activate" -> "active"
      [] label = "deactivate" -> "inactive"
      [] label = "cleanup" -> "unconfigured"
      [] OTHER -> "finalized"

\* faulty variant of CallTransitionReturn:
\* a successful transition is written into the
\* snapshot
CallTransitionReturnWriteThrough ==
    /\ pc = "wait"
    /\ \E r \in ChangeOutcomes :
          /\ calls' = [calls EXCEPT ![Len(calls)].result = r]
          /\ pc' = AfterStep(Tail(todo))
          /\ lc_nodes' = IF r = "success"
                         THEN WithState(lc_nodes, lc_node.name, Goal(Head(todo)))
                         ELSE lc_nodes
    /\ todo' = Tail(todo)
    /\ UNCHANGED <<lc_node_names, table_model, states, timers_active,
                   row, lc_node, menu, action>>
    /\ UNCHANGED <<escaped, graph>>

\* lines 221-232: the response arrives, is printed, _call_transition returns
CallTransitionReturn ==
    /\ pc = "wait"
    /\ \E r \in ChangeOutcomes :
          /\ calls' = [calls EXCEPT ![Len(calls)].result = r]
          /\ pc' = Continue(r, Tail(todo))
    /\ todo' = Tail(todo)
    /\ UNCHANGED <<lc_node_names, lc_nodes, table_model, states, timers_active,
                   row, lc_node, menu, action>>
    /\ UNCHANGED <<escaped, graph>>

Next ==
    \/ UpdateNodeList
    \/ UpdateNodesStateTimer
    \/ ShutdownPlugin
    \/ OnLcNodeMenuNoRow
    \/ OnLcNodeMenu
    \/ MenuExec
    \/ CallTransition
    \/ CallTransitionReturn

Spec == Init /\ [][Next]_vars

\* ------------------------------------------- responses outside the contract

\* call_get_states answers that are neither a State nor an Exception: a dict
\* without the node's key, and a value that has no attribute `label`
FaultyQueryOutcomes == QueryOutcomes \cup {"Absent", "Malformed"}

\* the answers to the queries for `names` of which at least one is faulty
FaultyAnswers(names) ==
    {res \in [NameSet(names) -> FaultyQueryOutcomes] :
        \E n \in NameSet(names) : res[n] \in {"Absent", "Malformed"}}

\* call_get_states(node_names=[n]) whose dict may lack the key n
CallGetStatesFaulty(n, res) ==
    [k \in {x \in {n} : res[x] # "Absent"} |-> res[k]]

\* lines 124-140 with such answers: a missing key gives no row; state.label of
\* a malformed value raises AttributeError at line 140, which ends the loop
\* with the rows appended so far
RECURSIVE QueryAllFaulty(_, _)
QueryAllFaulty(names, res) ==
    IF names = <<>> THEN <<>>
    ELSE IF res[Head(names)] = "Malformed" THEN <<>>
    ELSE RowsOf(DropExceptions(CallGetStatesFaulty(Head(names), res)))
            \o QueryAllFaulty(Tail(names), res)

Raises(names, res) == \E n \in NameSet(names) : res[n] = "Malformed"

\* _update_nodes_state with such answers: when the loop raises, line 142 is
\* not reached and the table model stays the old one
UpdateNodesStateFaulty(names, res) ==
    /\ lc_nodes' = QueryAllFaulty(names, res)
    /\ table_model' = IF Raises(names, res) THEN table_model
                      ELSE ShowLcNodes(QueryAllFaulty(names, res))
    /\ escaped' = IF Raises(names, res) THEN "AttributeError" ELSE "None"
    /\ states' = res

\* timeout of _update_nodes_state_timer, with a faulty answer
UpdateNodesStateTimerFaulty ==
    /\ escaped = "None"
    /\ timers_active
    /\ EventLoopRuns
    /\ \E res \in FaultyAnswers(lc_node_names) :
          UpdateNodesStateFaulty(lc_node_names, res)
    /\ UNCHANGED <<lc_node_names, timers_active, pc, row, lc_node, menu, action,
                   todo, calls, graph>>

\* timeout of _update_node_list_timer when get_node_names raises an exception
\* that is not a RuntimeError: line 153 does not catch it
UpdateNodeListRaises ==
    /\ escaped = "None"
    /\ timers_active
    /\ EventLoopRuns
    /\ escaped' = "Exception"
    /\ UNCHANGED <<lc_node_names, lc_nodes, table_model, states, timers_active,
                   pc, row, lc_node, menu, action, todo, calls, graph>>

\* timeout of _update_node_list_timer with a changed list and a faulty answer
\* to one of the state queries
UpdateNodeListFaulty ==
    /\ escaped = "None"
    /\ timers_active
    /\ EventLoopRuns
    /\ \E l \in DirectoryLists \ {lc_node_names} :
          /\ lc_node_names' = l
          /\ \E res \in FaultyAnswers(l) : UpdateNodesStateFaulty(l, res)
    /\ UNCHANGED <<timers_active, pc, row, lc_node, menu, action, todo, calls,
                   graph>>

\* line 221 when the dict of call_change_states lacks the node's key: KeyError
\* leaves _call_transition and _on_lc_node_menu
CallTransitionReturnKeyError ==
    /\ escaped = "None"
    /\ pc = "wait"
    /\ calls' = [calls EXCEPT ![Len(calls)].result = "Absent"]
    /\ pc' = "idle"
    /\ todo' = <<>>
    /\ escaped' = "KeyError"
    /\ UNCHANGED <<lc_node_names, lc_nodes, table_model, states, timers_active,
                   row, lc_node, menu, action, graph>>

\* the plugin with services that may answer outside their contract, followed
\* up to the first exception that leaves a callback
NextFaults ==
    \/ escaped = "None" /\ Next
    \/ UpdateNodesStateTimerFaulty
    \/ UpdateNodeListRaises
    \/ UpdateNodeListFaulty
    \/ CallTransitionReturnKeyError

SpecFaults == Init /\ [][NextFaults]_vars

\* ------------------------------------------------- the graph comes to rest

\* from here on the directory lists the same nodes and each keeps its state
Stabilize ==
    /\ ~graph.stable
    /\ graph' \in StableGraphs
    /\ UNCHANGED <<lc_node_names, lc_nodes, table_model, states, timers_active,
                   pc, row, lc_node, menu, action, todo, calls, escaped>>

\* the two polls of the running plugin (no shutdown, no menu callback, which
\* writes nothing the polls read) with a graph that may come to rest
NextStable ==
    \/ UpdateNodeList
    \/ UpdateNodesStateTimer
    \/ Stabilize

\* both timers keep firing
SpecStable ==
    /\ Init
    /\ [][NextStable]_vars
    /\ WF_vars(UpdateNodeList)
    /\ WF_vars(UpdateNodesStateTimer)

\* --------------------------------------------------------- table model

\* LifecycleNodeTable.data, Qt.DisplayRole: column 0 is the name, column 1 the
\* state label, or "not loaded" for a row without one
Data(node, column) ==
    IF column = 0 THEN node.name
    ELSE IF node.state = "" THEN "not loaded" ELSE node.state

\* ------------------------------------------------------------------ claims

\* names of the rows of the displayed snapshot
SnapshotNames == {lc_nodes[i].name : i \in 1..Len(lc_nodes)}

\* states the snapshot shows for node n (none when n has no row)
LastKnown(n) == {lc_nodes[i].state : i \in {j \in 1..Len(lc_nodes) : lc_nodes[j].name = n}}

\* the transition table of the specification: the steps legal from a state
LegalSteps(state) ==
    CASE state = "unconfigured" -> {"configure", "shutdown"}
      [] state = "inactive" -> {"activate", "cleanup", "shutdown"}
      [] state = "active" -> {"deactivate", "shutdown"}
      [] OTHER -> {}

\* C1: after a directory poll that returned the list l has been processed, the
\* names of the snapshot are exactly the names of l.
C1_MembershipIntegrity ==
    [][\A l \in DirectoryLists :
          UpdateNodeListOn(DirOk(l)) => SnapshotNames' = NameSet(l)]_vars

\* C2: a directory tick whose listing fails leaves the known list and the
\* snapshot as they were.
C2_OutageRetainsSnapshot ==
    [][UpdateNodeListOn(DirRuntimeError) =>
          UNCHANGED <<lc_node_names, lc_nodes>>]_vars

\* C3: while the request of an action's first step is out, that step is legal
\* from the state the snapshot holds for the node.
C3_FirstStepLegalAtDispatch ==
    (pc = "wait" /\ Len(calls) = 1 /\ LastKnown(calls[1].node) # {}) =>
        \A st \in LastKnown(calls[1].node) : calls[1].label \in LegalSteps(st)

\* C4: when the first call of an action returned failure or an exception, the
\* transition service is called once for that action.
C4_SequentialAbort ==
    (Len(calls) >= 1 /\ calls[1].result \in {"failure", "Exception"}) =>
        Len(calls) = 1

\* C5: at most one transition call is in flight for a node, and while one is
\* in flight no entry can be chosen and no further call can be sent.
Pending(n) == {i \in 1..Len(calls) : calls[i].node = n /\ calls[i].result = "pending"}

C5_PerNodeMutualExclusion ==
    /\ \A n \in Nodes : Cardinality(Pending(n)) <= 1
    /\ (\E n \in Nodes : Pending(n) # {}) =>
          (~ENABLED MenuExec /\ ~ENABLED CallTransition /\ ~ENABLED OnLcNodeMenu)

\* a call for a node is in flight while the snapshot shows a row of that node
\* on which a menu with entries could be opened
C5_Witness ==
    \E n \in Nodes :
        /\ Pending(n) # {}
        /\ \E st \in LastKnown(n) : MenuEntries(st) # {}

\* C6: a node of the known list whose state query returned an Exception in the
\* last refresh has a row in the snapshot, shown as "not loaded".
C6_UnknownOnQueryFailure ==
    \A n \in DOMAIN states :
        states[n] = "Exception" =>
            \E i \in 1..Len(lc_nodes) :
                lc_nodes[i].name = n /\ Data(lc_nodes[i], 1) = "not loaded"

\* C7: every node whose query of the last refresh returned a state has exactly
\* one row, with that state, whatever the other queries returned.
RowsNamed(n) == {i \in 1..Len(lc_nodes) : lc_nodes[i].name = n}

C7_PerNodeFailureIndependence ==
    \A n \in DOMAIN states :
        states[n] # "Exception" =>
            /\ Cardinality(RowsNamed(n)) = 1
            /\ \A i \in RowsNamed(n) : lc_nodes[i].state = states[n]

\* the first node of the list failed, the second one is shown with its state
C7_Witness ==
    /\ Len(lc_node_names) = 2
    /\ states[lc_node_names[1]] = "Exception"
    /\ states[lc_node_names[2]] \in Labels
    /\ lc_nodes = <<NodeState(lc_node_names[2], states[lc_node_names[2]])>>

\* the table of the specification: the actions offered for a state
SpecMenu(state) ==
    CASE state = "active" -> {"Deactivate", "Deactivate and cleanup", "Shutdown"}
      [] state = "inactive" -> {"Activate", "Cleanup", "Shutdown"}
      [] state = "unconfigured" -> {"Configure", "Configure and Activate", "Shutdown"}
      [] OTHER -> {}

\* the table of the specification: the transition sequence of an action
SpecSequence(entry) ==
    CASE entry = "Deactivate" -> <<"deactivate">>
      [] entry = "Deactivate and cleanup" -> <<"deactivate", "cleanup">>
      [] entry = "Shutdown" -> <<"shutdown">>
      [] entry = "Activate" -> <<"activate">>
      [] entry = "Cleanup" -> <<"cleanup">>
      [] entry = "Configure" -> <<"configure">>
      [] entry = "Configure and Activate" -> <<"configure", "activate">>
      [] OTHER -> <<>>

\* labels of the calls that have returned
Returned == SelectSeq(calls, LAMBDA c : c.result # "pending")

CallLabels(cs) == [i \in 1..Len(cs) |-> cs[i].label]

\* C8: the menu holds exactly the table's actions for the state of the row it
\* was opened on; the calls made and still to make for the chosen entry are
\* exactly the entry's sequence, all to that row's node; a row in no state of
\* the table gets no call.
C8_LegalActionSet ==
    /\ menu = SpecMenu(lc_node.state)
    /\ action \in menu \cup {"None"}
    /\ CallLabels(Returned) \o todo = SpecSequence(action)
    /\ \A i \in 1..Len(calls) : calls[i].node = lc_node.name
    /\ lc_node.state \notin {"active", "inactive", "unconfigured"} =>
          (calls = <<>> /\ todo = <<>>)

\* a combined entry has been chosen on an active row and carried out
C8_Witness ==
    /\ pc = "idle"
    /\ action = "Deactivate and cleanup"
    /\ CallLabels(calls) = <<"deactivate", "cleanup">>

\* C9: the calls of an action are sent in the order of its sequence, and each
\* one only after the one before it has returned.
IsPrefix(p, q) == Len(p) <= Len(q) /\ \A i \in 1..Len(p) : p[i] = q[i]

C9_StrictStepOrdering ==
    /\ IsPrefix(CallLabels(calls), SpecSequence(action))
    /\ \A i \in 1..Len(calls) : i < Len(calls) => calls[i].result # "pending"

\* the second call of a two-step action is out, the first has returned
C9_Witness ==
    /\ Len(calls) = 2
    /\ calls[1].result # "pending"
    /\ calls[2].result = "pending"

\* a step of the menu callback or of shutdown_plugin: every step that is not
\* one of the two polls
NotAPoll ==
    \/ OnLcNodeMenuNoRow
    \/ OnLcNodeMenu
    \/ MenuExec
    \/ CallTransition
    \/ CallTransitionReturn
    \/ ShutdownPlugin

\* C10: a step of a transition call changes neither the known list nor the
\* snapshot nor the table model, and the snapshot changes in no step other
\* than those of the two polls.
C10_NoWriteThrough ==
    /\ [][(CallTransition \/ CallTransitionReturn) =>
            UNCHANGED <<lc_node_names, lc_nodes, table_model>>]_vars
    /\ [][NotAPoll => lc_nodes' = lc_nodes]_vars

\* a transition has succeeded and the row of its node still shows the state
\* the menu was opened on
C10_Witness ==
    /\ \E i \in 1..Len(calls) : calls[i].result = "success"
    /\ lc_node.state \in LastKnown(lc_node.name)

\* C11: every name of the snapshot is a name of the known list.
C11_SnapshotWithinMembership ==
    SnapshotNames \subseteq NameSet(lc_node_names)

\* a node that had a row when the menu was opened on it has since left the
\* known list, and the snapshot still shows the node that stayed
C11_Witness ==
    /\ pc = "menu"
    /\ lc_node.name \notin NameSet(lc_node_names)
    /\ lc_nodes # <<>>

\* C14: a transition call in flight is for a node of the known list: no step
\* is sent for a node a poll has removed.
C14_CancellationOnRemoval ==
    pc = "wait" => calls[Len(calls)].node \in NameSet(lc_node_names)

\* C15: once the timers are stopped they stay stopped, and neither poll can
\* start.
C15_ShutdownCancelsPolling ==
    /\ [](~timers_active =>
            (~ENABLED UpdateNodeList /\ ~ENABLED UpdateNodesStateTimer))
    /\ [][~timers_active => ~timers_active']_vars

\* the plugin was shut down while nodes were known and the event loop runs
C15_Witness ==
    /\ ~timers_active
    /\ lc_node_names # <<>>
    /\ EventLoopRuns

\* C16: every row carries the label the last refresh's query returned for its
\* node, a node whose query failed in the last refresh has no row, and the
\* table model shows this snapshot.
C16_FullSnapshotReplacement ==
    /\ \A i \in 1..Len(lc_nodes) :
          /\ lc_nodes[i].name \in DOMAIN states
          /\ lc_nodes[i].state = states[lc_nodes[i].name]
    /\ \A n \in DOMAIN states : states[n] = "Exception" => RowsNamed(n) = {}
    /\ table_model # <<>> => table_model[1] = lc_nodes

\* the node the menu was opened on was shown with a primary state; its query
\* failed in the last refresh and it is no longer shown
C16_Witness ==
    /\ pc = "menu"
    /\ lc_node.state \in PrimaryLabels
    /\ lc_node.name \in DOMAIN states
    /\ states[lc_node.name] = "Exception"
    /\ lc_node.name \notin SnapshotNames

\* C18: a directory tick whose list equals the known list queries no state and
\* leaves the known list, the snapshot and the table model as they were; a tick
\* whose list differs stores the list and refreshes the states of exactly its
\* names in the same step.
C18_UnchangedTickIsNoOp ==
    [][\A out \in DirectoryOutcomes :
          UpdateNodeListOn(out) =>
              IF ListLcNodes(out) = lc_node_names
              THEN UNCHANGED <<lc_node_names, lc_nodes, table_model, states>>
              ELSE /\ lc_node_names' = ListLcNodes(out)
                   /\ DOMAIN states' = NameSet(ListLcNodes(out))
                   /\ table_model' = <<lc_nodes'>>]_vars

\* a known node is not shown: a tick returning the same list would show it if
\* it queried the states
C18_Witness ==
    /\ lc_node_names # <<>>
    /\ lc_nodes = <<>>
    /\ timers_active
    /\ EventLoopRuns

\* C19: the step in which the menu is dismissed, and a click where no row
\* lies, end the callback with the known list, the snapshot, the table model
\* and the calls as they were; as long as no entry has been chosen no
\* transition call has been made or is to be made.
C19_DismissedMenuDoesNothing ==
    /\ [](action = "None" =>
            (calls = <<>> /\ todo = <<>> /\ pc \in {"idle", "menu"}))
    /\ [][((MenuExec /\ action' = "None") \/ OnLcNodeMenuNoRow) =>
            (/\ UNCHANGED <<lc_node_names, lc_nodes, table_model, calls>>
             /\ pc' = "idle")]_vars

\* a menu with entries was opened on a row and dismissed
C19_Witness ==
    /\ pc = "idle"
    /\ action = "None"
    /\ menu # {}
    /\ lc_node.state \in {"active", "inactive", "unconfigured"}

\* C17: the row read when the menu is opened carries the name the table shows
\* in the clicked row; it is not replaced while the callback runs, whatever the
\* polls do to the snapshot; and every call of the action is sent to its name.
C17_ActionTargetsClickedRow ==
    /\ [](\A i \in 1..Len(calls) : calls[i].node = lc_node.name)
    /\ [][OnLcNodeMenu => lc_node'.name = Data(table_model[1][row'], 0)]_vars
    /\ [][pc # "idle" => lc_node' = lc_node]_vars

\* the second call of an action is out while the clicked row of the snapshot
\* has gone or holds another node
C17_Witness ==
    /\ pc = "wait"
    /\ Len(calls) = 2
    /\ \/ row > Len(lc_nodes)
       \/ lc_nodes[row].name # lc_node.name

\* C13: no exception leaves _update_node_list, _update_nodes_state or
\* _call_transition unhandled, whatever the services answer.
C13_NoUnhandledException == escaped = "None"

\* the snapshot holds one row for each node of the graph and none else, each
\* with the node's state, and the table shows it
Consistent ==
    /\ SnapshotNames = graph.nodes
    /\ Len(lc_nodes) = Cardinality(graph.nodes)
    /\ \A i \in 1..Len(lc_nodes) : lc_nodes[i].state = graph.state[lc_nodes[i].name]
    /\ table_model = <<lc_nodes>>

\* C12: once the graph is at rest the snapshot becomes, and then stays, the
\* nodes of the graph with their states.
C12_EventualConsistency == graph.stable ~> []Consistent

\* the graph rests with both nodes in different states and the snapshot shows
\* them
C12_Witness ==
    /\ graph.stable
    /\ graph.nodes = Nodes
    /\ Cardinality({graph.state[n] : n \in graph.nodes}) > 1
    /\ Consistent

====
